---- MODULE Spec2Model ----
(***************************************************************************)
(* A model of the agent orchestration code of potpie:                      *)
(*   - LowLevelDesignAgent.run, the streaming capture bridge that turns    *)
(*     the executor's console output into a stream of chunks               *)
(*     (app/modules/intelligence/agents/agents/low_level_design_agent.py); *)
(*   - the two-task design pipeline built by create_tasks;                 *)
(*   - kickoff_unit_test_agent / UnitTestAgent.run                         *)
(*     (app/modules/intelligence/agents/agents/unit_test_agent.py).        *)
(* Text is modelled character by character: a line is a sequence of        *)
(* one-character strings, so that the marker test, the suffix test and the *)
(* six-character cut are computed the way the code computes them.          *)
(***************************************************************************)
EXTENDS Naturals, Sequences, FiniteSets

(***************************************************************************)
(* Bounds of the model.                                                    *)
(***************************************************************************)
\* the most lines one executor run prints
MaxLines == 3
\* the number of lines the pipe holds before a write blocks
PipeCap == 2
\* the most lines an executor prints when two runs overlap
OverlapLines == 2
\* the most node ids a unit-test request carries
MaxNodes == 2
\* the most citations a unit-test result carries
MaxCites == 2
\* the most design steps of a plan, and the largest step number
MaxSteps == 2
MaxStepNo == 3

(***************************************************************************)
(* Text.                                                                   *)
(***************************************************************************)
\* the escape character \x1b, one character
ESC == "ESC"
NL == "\n"

\* "## Final Answer:" (low_level_design_agent.py:213)
Marker ==
  <<"#", "#", " ", "F", "i", "n", "a", "l", " ", "A", "n", "s", "w", "e", "r", ":">>

\* "\x1b[00m\n" (low_level_design_agent.py:209)
ResetNL == <<ESC, "[", "0", "0", "m", NL>>

\* sub in s (Python's `in` on strings)
Contains(s, sub) ==
  \E i \in 1..(Len(s) + 1) :
    /\ i + Len(sub) - 1 <= Len(s)
    /\ SubSeq(s, i, i + Len(sub) - 1) = sub

\* s.endswith(suf)
EndsWith(s, suf) ==
  /\ Len(s) >= Len(suf)
  /\ SubSeq(s, Len(s) - Len(suf) + 1, Len(s)) = suf

\* s[:-n] for n > 0: the string without its last n characters
DropLast(s, n) == IF Len(s) <= n THEN <<>> ELSE SubSeq(s, 1, Len(s) - n)

\* the mutant of Chunk: the cut leaves the newline's place to the escape
ChunkCutFive(text) ==
  IF EndsWith(text, ResetNL) THEN DropLast(text, 5) ELSE text

\* what the consumer yields for a line of the final section (209-212)
Chunk(text) ==
  IF EndsWith(text, ResetNL) THEN DropLast(text, 6) ELSE text

\* "## Final Answer:" in line (213)
IsMarkerLine(text) == Contains(text, Marker)

(***************************************************************************)
(* The lines an executor may print.                                        *)
(***************************************************************************)
Part1 == <<"p", "a", "r", "t", "1", NL>>
MarkerLine == Marker \o <<NL>>
Hello == <<"h", "e", "l", "l", "o">> \o ResetNL
World == <<"w", "o", "r", "l", "d", NL>>
\* nothing but the reset sequence: its chunk is the empty string
BareReset == ResetNL
\* the marker inside a line that also ends with the reset sequence
MarkerInside == <<">", " ">> \o Marker \o <<" ", "x">> \o ResetNL
\* the reset sequence without its escape character: five characters, not cut
NoEscape == <<"[", "0", "0", "m", NL>>
\* the marker without its colon: not a marker
NoColon == <<"#", "#", " ", "F", "i", "n", "a", "l", " ", "A", "n", "s", "w", "e", "r", NL>>

LinePool ==
  {Part1, MarkerLine, Hello, World, BareReset, MarkerInside, NoEscape, NoColon}

\* the lines of the runs checked for progress
SmallPool == {MarkerLine, Hello}

(***************************************************************************)
(* State of the streaming bridge, one entry per run (request).             *)
(***************************************************************************)
Runs == {1, 2}
\* the process's standard output before any run redirects it
Orig == 0

VARIABLES
  gen,        \* where the generator LowLevelDesignAgent.run of a run is
  prod,       \* where the task kickoff() of a run is
  sys_stdout, \* the process-wide sys.stdout: Orig, or the write_file of a run
  saved,      \* what redirect_stdout of a run saved on entry
  wopen,      \* the write end of a run's pipe is open
  ropen,      \* the read end of a run's pipe is open
  pipe,       \* the lines in a run's pipe
  final_answer_streaming,
  yielded,    \* the chunks the generator of a run has yielded
  written,    \* history: every line that entered a run's pipe
  printed,    \* how many lines the executor of a run has printed
  lost,       \* history: lines of a run printed to the original stdout
  after       \* history: the producer of a run took a step after its consumer stopped

bridgeVars ==
  <<gen, prod, sys_stdout, saved, wopen, ropen, pipe, final_answer_streaming,
    yielded, written, printed, lost, after>>

(***************************************************************************)
(* State of one call of kickoff_unit_test_agent.                           *)
(***************************************************************************)
VARIABLES
  node_ids,   \* argument: the NodeContexts, a list of node ids
  query,      \* argument
  env,        \* the optional tools configured: FIRECRAWL_API_KEY, GITHUB_APP_ID
  t_pc,       \* where the call is
  t_llm,      \* how many model handles were obtained
  t_tools,    \* the tool adapters constructed
  t_agents,   \* how many Agents were constructed
  t_task,     \* the Tasks constructed
  t_exec,     \* how many times the executor was invoked
  t_result,   \* what the executor returned
  t_ret       \* what the call returned

testVars ==
  <<node_ids, query, env, t_pc, t_llm, t_tools, t_agents, t_task, t_exec, t_result,
    t_ret>>

(***************************************************************************)
(* State of one run of the design pipeline's two tasks.                    *)
(***************************************************************************)
VARIABLES
  d_req,      \* arguments: functional_requirements and project_id
  d_tasks,    \* the list create_tasks returned
  d_idx,      \* the place in d_tasks of the task that runs or is next
  d_phase,    \* idle, running a task, done, failed
  d_out,      \* the result of each task: <<>> before it has one, then <<result>>
  d_seen,     \* the context each task was given when it started
  d_order     \* history: the tasks in the order they were started

designVars == <<d_req, d_tasks, d_idx, d_phase, d_out, d_seen, d_order>>

vars == <<bridgeVars, testVars, designVars>>

None == "None"

\* the bridge is not in use
BridgeIdle ==
  /\ gen = [r \in Runs |-> "idle"]
  /\ prod = [r \in Runs |-> "none"]
  /\ sys_stdout = Orig
  /\ saved = [r \in Runs |-> Orig]
  /\ wopen = [r \in Runs |-> FALSE]
  /\ ropen = [r \in Runs |-> FALSE]
  /\ pipe = [r \in Runs |-> <<>>]
  /\ final_answer_streaming = [r \in Runs |-> FALSE]
  /\ yielded = [r \in Runs |-> <<>>]
  /\ written = [r \in Runs |-> <<>>]
  /\ printed = [r \in Runs |-> 0]
  /\ lost = [r \in Runs |-> 0]
  /\ after = [r \in Runs |-> FALSE]

\* no unit-test call is made
TestIdle ==
  /\ node_ids = <<>>
  /\ query = "q1"
  /\ env = {}
  /\ t_pc = "idle"
  /\ t_llm = 0
  /\ t_tools = {}
  /\ t_agents = 0
  /\ t_task = <<>>
  /\ t_exec = 0
  /\ t_result = None
  /\ t_ret = None

\* no task list is run
DesignIdle ==
  /\ d_req = <<"r1", "p1">>
  /\ d_tasks = <<>>
  /\ d_idx = 0
  /\ d_phase = "idle"
  /\ d_out = [n \in {"analyze", "design"} |-> <<>>]
  /\ d_seen = [n \in {"analyze", "design"} |-> <<>>]
  /\ d_order = <<>>

InitBridge == BridgeIdle /\ TestIdle /\ DesignIdle

\* the consumer of run r has stopped reading before end-of-stream
Stopped(r) == gen[r] = "abandoned"

\* run(): create_agents, create_tasks, os.pipe(), create_task(kickoff()) (182-200)
CallRun(r) ==
  /\ UNCHANGED <<testVars, designVars>>
  /\ gen[r] = "idle"
  /\ gen' = [gen EXCEPT ![r] = "spawned"]
  /\ wopen' = [wopen EXCEPT ![r] = TRUE]
  /\ ropen' = [ropen EXCEPT ![r] = TRUE]
  /\ prod' = [prod EXCEPT ![r] = "scheduled"]
  /\ UNCHANGED <<sys_stdout, saved, pipe, final_answer_streaming, yielded, written,
                 printed, lost, after>>

\* the mutant of Launched: the run is awaited before the reading starts
Awaited(r) == prod[r] \in {"done", "failed"}

\* asyncio.create_task(kickoff()): the task is created, not awaited (200)
Launched(r) == prod[r] # "none"

\* final_answer_streaming = False; aiofiles.open(read_fd) (203-204)
OpenReader(r) ==
  /\ UNCHANGED <<testVars, designVars>>
  /\ gen[r] = "spawned"
  /\ Launched(r)
  /\ gen' = [gen EXCEPT ![r] = "reading"]
  /\ final_answer_streaming' = [final_answer_streaming EXCEPT ![r] = FALSE]
  /\ UNCHANGED <<prod, sys_stdout, saved, wopen, ropen, pipe, yielded, written,
                 printed, lost, after>>

\* kickoff() starts: os.fdopen(write_fd), redirect_stdout enters (190-191)
KickoffEnter(r) ==
  /\ UNCHANGED <<testVars, designVars>>
  /\ prod[r] = "scheduled"
  /\ prod' = [prod EXCEPT ![r] = "running"]
  /\ saved' = [saved EXCEPT ![r] = sys_stdout]
  /\ sys_stdout' = r
  /\ after' = [after EXCEPT ![r] = after[r] \/ Stopped(r)]
  /\ UNCHANGED <<gen, wopen, ropen, pipe, final_answer_streaming, yielded, written,
                 printed, lost>>

\* the mutant of LeaveKickoff: write_file is closed on the normal path only
LeaveKickoffNoFinally(r, outcome) ==
  /\ prod' = [prod EXCEPT ![r] = outcome]
  /\ sys_stdout' = saved[r]
  /\ wopen' = [wopen EXCEPT ![r] = (outcome # "done")]
  /\ after' = [after EXCEPT ![r] = after[r] \/ Stopped(r)]

\* the two with-blocks exit: sys.stdout is set back to what this run saved, and
\* write_file is closed (190-191)
LeaveKickoff(r, outcome) ==
  /\ prod' = [prod EXCEPT ![r] = outcome]
  /\ sys_stdout' = saved[r]
  /\ wopen' = [wopen EXCEPT ![r] = FALSE]
  /\ after' = [after EXCEPT ![r] = after[r] \/ Stopped(r)]

\* the executor of run r prints one line: it goes to whatever sys.stdout is at
\* that moment (192-198). A closed file or a pipe without reader raises in the
\* executor, which ends the run with an exception.
ExecutorPrint(r, text) ==
  /\ UNCHANGED <<testVars, designVars>>
  /\ prod[r] = "running"
  /\ printed[r] < MaxLines
  /\ LET t == sys_stdout
         l == [by |-> r, text |-> text]
     IN IF t = Orig
        THEN /\ lost' = [lost EXCEPT ![r] = lost[r] + 1]
             /\ printed' = [printed EXCEPT ![r] = printed[r] + 1]
             /\ after' = [after EXCEPT ![r] = after[r] \/ Stopped(r)]
             /\ UNCHANGED <<prod, sys_stdout, wopen, pipe, written>>
        ELSE IF ~wopen[t] \/ ~ropen[t]
        THEN /\ LeaveKickoff(r, "failed")
             /\ UNCHANGED <<pipe, written, printed, lost>>
        ELSE /\ Len(pipe[t]) < PipeCap
             /\ pipe' = [pipe EXCEPT ![t] = Append(pipe[t], l)]
             /\ written' = [written EXCEPT ![t] = Append(written[t], l)]
             /\ printed' = [printed EXCEPT ![r] = printed[r] + 1]
             /\ after' = [after EXCEPT ![r] = after[r] \/ Stopped(r)]
             /\ UNCHANGED <<prod, sys_stdout, wopen, lost>>
  /\ UNCHANGED <<gen, saved, ropen, final_answer_streaming, yielded>>

\* crew.kickoff_async() returns or raises; kickoff() leaves its with-blocks (198)
KickoffExit(r, outcome) ==
  /\ UNCHANGED <<testVars, designVars>>
  /\ prod[r] = "running"
  /\ LeaveKickoff(r, outcome)
  /\ UNCHANGED <<gen, saved, ropen, pipe, final_answer_streaming, yielded, written,
                 printed, lost>>

\* the mutant of Forward: the flag is looked at after the marker test
ForwardMarkerFirst(streaming, text) ==
  IF streaming \/ IsMarkerLine(text) THEN <<Chunk(text)>> ELSE <<>>

\* what one iteration of the loop yields for a line (208-212)
Forward(streaming, text) ==
  IF streaming THEN <<Chunk(text)>> ELSE <<>>

\* one iteration of `async for line in read_file`: an empty line ends the loop,
\* which closes read_file; any other line is yielded if the flag is set, and
\* sets the flag if it holds the marker (205-214)
ConsumerRead(r) ==
  /\ UNCHANGED <<testVars, designVars>>
  /\ gen[r] = "reading"
  /\ pipe[r] # <<>>
  /\ LET l == Head(pipe[r])
         out == Forward(final_answer_streaming[r], l.text)
     IN IF l.text = <<>>
        THEN /\ gen' = [gen EXCEPT ![r] = "done"]
             /\ ropen' = [ropen EXCEPT ![r] = FALSE]
             /\ UNCHANGED <<yielded, final_answer_streaming>>
        ELSE /\ yielded' =
                  [yielded EXCEPT ![r] =
                     yielded[r] \o [i \in 1..Len(out) |-> [by |-> l.by, text |-> out[i]]]]
             /\ final_answer_streaming' =
                  [final_answer_streaming EXCEPT
                     ![r] = final_answer_streaming[r] \/ IsMarkerLine(l.text)]
             /\ UNCHANGED <<gen, ropen>>
  /\ pipe' = [pipe EXCEPT ![r] = Tail(pipe[r])]
  /\ UNCHANGED <<prod, sys_stdout, saved, wopen, written, printed, lost, after>>

\* the loop ends at end-of-file: the pipe is empty and its write end is closed;
\* `async with` closes read_file (204-205)
ConsumerEOF(r) ==
  /\ UNCHANGED <<testVars, designVars>>
  /\ gen[r] = "reading"
  /\ pipe[r] = <<>>
  /\ ~wopen[r]
  /\ gen' = [gen EXCEPT ![r] = "done"]
  /\ ropen' = [ropen EXCEPT ![r] = FALSE]
  /\ UNCHANGED <<prod, sys_stdout, saved, wopen, pipe, final_answer_streaming,
                 yielded, written, printed, lost, after>>

\* the mutant of TaskAfterAbandon: the generator cancels its task on the way out
TaskCancelled(r) ==
  [prod EXCEPT ![r] = IF prod[r] \in {"scheduled", "running"} THEN "cancelled" ELSE prod[r]]

\* the task created at line 200 when the generator is left early: run() keeps
\* no handle to it and has no try/finally, so it is left as it is (200-214)
TaskAfterAbandon(r) == prod

\* the caller stops iterating. With aclose() the generator leaves `async with`
\* and read_file is closed at once; otherwise the generator stays suspended and
\* read_file stays open until the generator is finalized.
Abandon(r, closes) ==
  /\ UNCHANGED <<testVars, designVars>>
  /\ gen[r] = "reading"
  /\ gen' = [gen EXCEPT ![r] = "abandoned"]
  /\ ropen' = [ropen EXCEPT ![r] = ~closes]
  /\ prod' = TaskAfterAbandon(r)
  /\ UNCHANGED <<sys_stdout, saved, wopen, pipe, final_answer_streaming,
                 yielded, written, printed, lost, after>>

\* the abandoned generator is finalized: read_file is closed
Finalize(r) ==
  /\ UNCHANGED <<testVars, designVars>>
  /\ gen[r] = "abandoned"
  /\ ropen[r]
  /\ ropen' = [ropen EXCEPT ![r] = FALSE]
  /\ UNCHANGED <<gen, prod, sys_stdout, saved, wopen, pipe, final_answer_streaming,
                 yielded, written, printed, lost, after>>

RunStep(r, pool) ==
  \/ CallRun(r)
  \/ OpenReader(r)
  \/ KickoffEnter(r)
  \/ \E text \in pool : ExecutorPrint(r, text)
  \/ \E outcome \in {"done", "failed"} : KickoffExit(r, outcome)
  \/ ConsumerRead(r)
  \/ ConsumerEOF(r)
  \/ \E closes \in BOOLEAN : Abandon(r, closes)
  \/ Finalize(r)

\* one design-pipeline request
Next == RunStep(1, LinePool)

Spec == InitBridge /\ [][Next]_vars

\* one request, with the scheduling the event loop and the thread pool give:
\* a created task is started, a reader that can read does read
NextLive == RunStep(1, SmallPool)

SpecLive ==
  /\ InitBridge
  /\ [][NextLive]_vars
  /\ WF_vars(OpenReader(1))
  /\ WF_vars(KickoffEnter(1))
  /\ WF_vars(ConsumerRead(1))
  /\ WF_vars(ConsumerEOF(1))

\* two requests that may overlap in time
NextOverlap ==
  \E r \in Runs :
    \/ CallRun(r)
    \/ OpenReader(r)
    \/ KickoffEnter(r)
    \/ printed[r] < OverlapLines /\ ExecutorPrint(r, MarkerLine)
    \/ \E outcome \in {"done", "failed"} : KickoffExit(r, outcome)
    \/ ConsumerRead(r)
    \/ ConsumerEOF(r)
    \/ \E closes \in BOOLEAN : Abandon(r, closes)
    \/ Finalize(r)

SpecOverlap == InitBridge /\ [][NextOverlap]_vars

(***************************************************************************)
(* Properties of the streaming bridge.                                     *)
(***************************************************************************)
Texts(ls) == [i \in 1..Len(ls) |-> ls[i].text]

\* the lines of run r's pipe that its consumer has read
Consumed(r) == SubSeq(written[r], 1, Len(written[r]) - Len(pipe[r]))

HasMarker(text) == Contains(text, Marker)

\* the place of the first line with the marker, 0 when there is none
FirstMarker(texts) ==
  IF \E i \in 1..Len(texts) : HasMarker(texts[i])
  THEN CHOOSE i \in 1..Len(texts) :
         HasMarker(texts[i]) /\ \A j \in 1..(i - 1) : ~HasMarker(texts[j])
  ELSE 0

\* a line without its trailing reset sequence and newline
WithoutReset(text) ==
  IF EndsWith(text, ResetNL)
  THEN SubSeq(text, 1, Len(text) - Len(ResetNL))
  ELSE text

\* the chunks due for a sequence of lines: the lines after the first marker line
Due(texts) ==
  IF FirstMarker(texts) = 0
  THEN <<>>
  ELSE [i \in 1..(Len(texts) - FirstMarker(texts)) |->
          WithoutReset(texts[FirstMarker(texts) + i])]

\* C1: at every moment the chunks yielded by run() are, in order and one per
\* line, the lines read so far that come after the first marker line, each
\* unchanged but for a removed trailing ESC[00m newline; when the generator has
\* finished they are those of all the lines written into the channel.
C1_YieldsLinesAfterMarker ==
  \A r \in Runs :
    /\ Texts(yielded[r]) = Due(Texts(Consumed(r)))
    /\ gen[r] = "done" => Texts(yielded[r]) = Due(Texts(written[r]))

\* the marker line, then hello with the reset sequence, then world: exactly
\* "hello" and "world\n" were yielded
C1_Witness ==
  /\ gen[1] = "done"
  /\ Texts(written[1]) = <<MarkerLine, Hello, World>>
  /\ Texts(yielded[1]) = <<<<"h", "e", "l", "l", "o">>, World>>

\* C2 as stated: no yielded chunk contains the marker
C2_NoMarkerChunk ==
  \A r \in Runs : \A i \in 1..Len(yielded[r]) : ~HasMarker(yielded[r][i].text)

MarkerCount(texts) == Cardinality({i \in 1..Len(texts) : HasMarker(texts[i])})

\* C2 as amended: the first line that contains the marker is never yielded, and
\* it is the only marker line withheld: of the marker lines read, all but the
\* first are yielded
C2_FirstMarkerWithheld ==
  \A r \in Runs :
    MarkerCount(Texts(yielded[r])) =
      IF MarkerCount(Texts(Consumed(r))) = 0
      THEN 0
      ELSE MarkerCount(Texts(Consumed(r))) - 1

\* two marker lines were read: the first was withheld, the second yielded
C2_Witness ==
  /\ Texts(Consumed(1)) = <<MarkerLine, MarkerInside>>
  /\ Len(yielded[1]) = 1
  /\ HasMarker(yielded[1][1].text)

Finished(r) == prod[r] \in {"done", "failed"}

\* C4: once the executor run has ended, normally or with an exception, the
\* write end of the pipe is closed; the consumer, unless the caller abandons it,
\* then reads what the pipe still holds and finishes; a finished generator has
\* read every line written, yields nothing more, and never finishes while the
\* write end is open.
C4_StreamEndsWithRun ==
  /\ [](\A r \in Runs : Finished(r) => ~wopen[r])
  /\ [](\A r \in Runs :
          gen[r] = "done" => ~wopen[r] /\ pipe[r] = <<>> /\ Consumed(r) = written[r])
  /\ [][\A r \in Runs : gen[r] = "done" => yielded'[r] = yielded[r] /\ gen'[r] = "done"]_vars
  /\ (Finished(1) ~> (gen[1] = "done" \/ Stopped(1)))

\* the run failed with lines still in the pipe, and the generator finished
\* after delivering them
C4_Witness ==
  /\ prod[1] = "failed"
  /\ gen[1] = "done"
  /\ Len(written[1]) = PipeCap
  /\ Len(yielded[1]) = PipeCap - 1

\* the executor of run r wants to print and the pipe is full
Blocked(r) == prod[r] = "running" /\ wopen[r] /\ ropen[r] /\ Len(pipe[r]) = PipeCap

\* C5: a producer blocked on a full pipe is eventually unblocked, and every
\* line written into the pipe is eventually read, unless the caller abandons
\* the generator.
C5_NoDeadlockOnFullPipe ==
  /\ (Blocked(1) ~> (~Blocked(1) \/ Stopped(1)))
  /\ \A n \in 1..MaxLines :
       (Len(written[1]) >= n) ~> (Len(Consumed(1)) >= n \/ Stopped(1))

\* the producer has written more lines than the pipe holds, so it was blocked
\* and unblocked, and all of them were read
C5_Witness ==
  /\ Len(written[1]) > PipeCap
  /\ Consumed(1) = written[1]
  /\ gen[1] = "done"

\* C10: the step by which the caller abandons the generator leaves the producer
\* task as it was, and no task is ever cancelled: a task ends only by its own
\* steps.
C10_ProducerNotCancelled ==
  /\ [][\A r \in Runs : (~Stopped(r) /\ Stopped(r)') => prod'[r] = prod[r]]_vars
  /\ [](\A r \in Runs : prod[r] # "cancelled")

\* the consumer stopped while the executor was running, and the executor went
\* on: it printed a further line into the pipe
C10_Witness ==
  /\ Stopped(1)
  /\ after[1]
  /\ prod[1] = "running"
  /\ Len(pipe[1]) = PipeCap

\* C6 as stated: every line in a run's pipe was printed by that run's executor,
\* every chunk a caller gets is of its own run, and no line of a run goes
\* anywhere else
C6_OwnChannelOnly ==
  \A r \in Runs :
    /\ \A i \in 1..Len(written[r]) : written[r][i].by = r
    /\ \A i \in 1..Len(yielded[r]) : yielded[r][i].by = r
    /\ lost[r] = 0

(***************************************************************************)
(* The unit-test pipeline: kickoff_unit_test_agent and UnitTestAgent.      *)
(***************************************************************************)
BoundedSeq(S, k) == UNION {[1..n -> S] : n \in 0..k}

NodeIds == {"n1", "n2"}
\* the file each node of the knowledge graph belongs to
FileOf == [n \in NodeIds |-> IF n = "n1" THEN "a.py" ELSE "b.py"]
\* the file names a model may cite: those of the nodes, and one of no node
Files == {"a.py", "b.py", "c.py"}
Queries == {"q1", "q2"}
OptionalTools == {"webpage_extractor_tool", "github_tool"}

\* the payload returned for an empty node list (174-176)
ErrorPayload == [error |-> "No function name is provided by the user. ..."]

InitTest ==
  /\ BridgeIdle
  /\ DesignIdle
  /\ node_ids \in BoundedSeq(NodeIds, MaxNodes)
  /\ query \in Queries
  /\ env \in SUBSET OptionalTools
  /\ t_pc = "called"
  /\ t_llm = 0
  /\ t_tools = {}
  /\ t_agents = 0
  /\ t_task = <<>>
  /\ t_exec = 0
  /\ t_result = None
  /\ t_ret = None

\* the mutant of NoTargets: the guard is gone
NoTargetsNever(ids) == FALSE

\* `not node_ids` (173)
NoTargets(ids) == ids = <<>>

\* if not node_ids: return {"error": ...} (173-176)
CheckNodeIds ==
  /\ UNCHANGED <<bridgeVars, designVars>>
  /\ t_pc = "called"
  /\ IF NoTargets(node_ids)
     THEN /\ t_ret' = ErrorPayload
          /\ t_pc' = "returned"
     ELSE /\ t_pc' = "provider"
          /\ UNCHANGED t_ret
  /\ UNCHANGED <<node_ids, query, env, t_llm, t_tools, t_agents, t_task, t_exec,
                 t_result>>

\* ProviderService(sql_db, user_id).get_large_llm(AgentType.CREWAI) (177-178)
GetLargeLLM ==
  /\ UNCHANGED <<bridgeVars, designVars>>
  /\ t_pc = "provider"
  /\ t_llm' = t_llm + 1
  /\ t_pc' = "construct"
  /\ UNCHANGED <<node_ids, query, env, t_tools, t_agents, t_task, t_exec, t_result,
                 t_ret>>

\* UnitTestAgent(sql_db, crew_ai_llm, user_id): the tool adapters (179, 25-39)
ConstructAgent ==
  /\ UNCHANGED <<bridgeVars, designVars>>
  /\ t_pc = "construct"
  /\ t_tools' = {"get_code_from_node_id", "get_code_from_probable_node_name"} \cup env
  /\ t_pc' = "create_agents"
  /\ UNCHANGED <<node_ids, query, env, t_llm, t_agents, t_task, t_exec, t_result,
                 t_ret>>

\* create_agents() (147, 41-57)
CreateAgents ==
  /\ UNCHANGED <<bridgeVars, designVars>>
  /\ t_pc = "create_agents"
  /\ t_agents' = t_agents + 1
  /\ t_pc' = "create_tasks"
  /\ UNCHANGED <<node_ids, query, env, t_llm, t_tools, t_task, t_exec, t_result,
                 t_ret>>

\* create_tasks(): one Task with output_pydantic=TestAgentResponse (148-150, 68-138)
CreateTestTask ==
  /\ UNCHANGED <<bridgeVars, designVars>>
  /\ t_pc = "create_tasks"
  /\ t_task' = <<[node_ids_list |-> node_ids,
                  query |-> query,
                  output_pydantic |-> "TestAgentResponse"]>>
  /\ t_pc' = "kickoff"
  /\ UNCHANGED <<node_ids, query, env, t_llm, t_tools, t_agents, t_exec, t_result,
                 t_ret>>

\* a payload that validates against TestAgentResponse: a response string and a
\* list of strings; the schema says nothing about which strings (59-66)
TestAgentResponse ==
  {[response |-> "plan", citations |-> c] : c \in BoundedSeq(Files, MaxCites)}

\* what the executor may hand back for a task: with a declared schema, a
\* payload that validates against it
ExecutorResults(task) ==
  IF task.output_pydantic = "TestAgentResponse"
  THEN TestAgentResponse
  ELSE TestAgentResponse \cup {"raw text"}

\* Crew(...); result = await crew.kickoff_async(): a result, or the run fails
\* (152-159)
KickoffCrew ==
  /\ UNCHANGED <<bridgeVars, designVars>>
  /\ t_pc = "kickoff"
  /\ t_exec' = t_exec + 1
  /\ \/ \E res \in ExecutorResults(t_task[1]) :
          /\ t_result' = res
          /\ t_pc' = "got_result"
     \/ /\ t_pc' = "raised"
        /\ UNCHANGED t_result
  /\ UNCHANGED <<node_ids, query, env, t_llm, t_tools, t_agents, t_task, t_ret>>

\* return result, in run() and in kickoff_unit_test_agent (161, 180-181)
ReturnResult ==
  /\ UNCHANGED <<bridgeVars, designVars>>
  /\ t_pc = "got_result"
  /\ t_ret' = t_result
  /\ t_pc' = "returned"
  /\ UNCHANGED <<node_ids, query, env, t_llm, t_tools, t_agents, t_task, t_exec,
                 t_result>>

NextTest ==
  \/ CheckNodeIds
  \/ GetLargeLLM
  \/ ConstructAgent
  \/ CreateAgents
  \/ CreateTestTask
  \/ KickoffCrew
  \/ ReturnResult

SpecTest == InitTest /\ [][NextTest]_vars

\* C3: with an empty node list the call returns the error payload and, at no
\* point of the call, is a model handle obtained, an agent, task or tool
\* constructed or the executor invoked; with a non-empty list a call that
\* returns has invoked the executor exactly once and returns its result.
C3_EmptyListShortCircuits ==
  /\ (node_ids = <<>> /\ t_pc # "idle") =>
       /\ t_pc \in {"called", "returned"}
       /\ t_llm = 0 /\ t_tools = {} /\ t_agents = 0 /\ t_task = <<>> /\ t_exec = 0
       /\ t_pc = "returned" => t_ret = ErrorPayload
  /\ (node_ids # <<>> /\ t_pc = "returned") =>
       t_exec = 1 /\ t_ret = t_result /\ t_ret # ErrorPayload
  /\ t_exec <= 1

\* the call with an empty list has returned
C3_Witness ==
  /\ node_ids = <<>>
  /\ t_pc = "returned"
  /\ t_ret = ErrorPayload

\* the files of the nodes the caller supplied
SuppliedFiles == {FileOf[node_ids[i]] : i \in 1..Len(node_ids)}

\* C8 as stated: a call with a non-empty node list that returns, returns a
\* payload that validates against TestAgentResponse and cites only files of
\* the supplied nodes
C8_ValidatedAndCited ==
  (node_ids # <<>> /\ t_pc = "returned") =>
    /\ t_ret \in TestAgentResponse
    /\ \A i \in 1..Len(t_ret.citations) : t_ret.citations[i] \in SuppliedFiles

(***************************************************************************)
(* The design pipeline: the two tasks of create_tasks under the            *)
(* sequential executor.                                                    *)
(***************************************************************************)
Requirements == {"r1", "r2"}
ProjectIds == {"p1", "p2"}

\* the mutant of CreateTasks: the list is returned in the other order
CreateTasksSwapped ==
  <<[name |-> "design", agent |-> "design_planner", context |-> <<"analyze">>,
     output_pydantic |-> None],
    [name |-> "analyze", agent |-> "codebase_analyst", context |-> <<>>,
     output_pydantic |-> None]>>

\* create_tasks(): analyze_codebase_task, then create_design_plan_task with
\* context=[analyze_codebase_task]; neither declares an output schema (138-177)
CreateTasks ==
  <<[name |-> "analyze", agent |-> "codebase_analyst", context |-> <<>>,
     output_pydantic |-> None],
    [name |-> "design", agent |-> "design_planner", context |-> <<"analyze">>,
     output_pydantic |-> None]>>

\* DesignStep, by its step_number: any integer (39-47)
DesignStep == {[step_number |-> n] : n \in 1..MaxStepNo}

\* LowLevelDesignPlan, by its design_steps: any list of DesignSteps (50-60)
LowLevelDesignPlan ==
  {[design_steps |-> steps] : steps \in BoundedSeq(DesignStep, MaxSteps)}

AnalysisReports == {"report1", "report2", "report3"}

\* what a task's agent may answer
AnswersOf(task) ==
  IF task.name = "analyze" THEN AnalysisReports ELSE LowLevelDesignPlan

\* whether the executor takes an answer as the task's result: it validates
\* against the task's declared schema, when one is declared
Accepts(task, answer) ==
  task.output_pydantic = "LowLevelDesignPlan" => answer \in LowLevelDesignPlan

\* the results of the tasks a task names as its context, those that exist
ContextOf(task) ==
  LET outs == [i \in 1..Len(task.context) |-> d_out[task.context[i]]]
      Flat[i \in 0..Len(outs)] == IF i = 0 THEN <<>> ELSE Flat[i - 1] \o outs[i]
  IN Flat[Len(outs)]

InitDesign ==
  /\ BridgeIdle
  /\ TestIdle
  /\ d_req \in Requirements \X ProjectIds
  /\ d_tasks = <<>>
  /\ d_idx = 0
  /\ d_phase = "new"
  /\ d_out = [n \in {"analyze", "design"} |-> <<>>]
  /\ d_seen = [n \in {"analyze", "design"} |-> <<>>]
  /\ d_order = <<>>

\* tasks = await self.create_tasks(...); Crew(tasks=tasks, process=sequential)
\* (183-197)
BuildCrew ==
  /\ UNCHANGED <<bridgeVars, testVars>>
  /\ d_phase = "new"
  /\ d_tasks' = CreateTasks
  /\ d_idx' = 1
  /\ d_phase' = "ready"
  /\ UNCHANGED <<d_req, d_out, d_seen, d_order>>

\* the executor starts the next task of the list, with its context
StartTask ==
  /\ UNCHANGED <<bridgeVars, testVars>>
  /\ d_phase = "ready"
  /\ d_idx <= Len(d_tasks)
  /\ LET task == d_tasks[d_idx]
     IN /\ d_seen' = [d_seen EXCEPT ![task.name] = ContextOf(task)]
        /\ d_order' = Append(d_order, task.name)
  /\ d_phase' = "running"
  /\ UNCHANGED <<d_req, d_tasks, d_idx, d_out>>

\* the task's agent answers and the answer becomes the task's result
FinishTask ==
  /\ UNCHANGED <<bridgeVars, testVars>>
  /\ d_phase = "running"
  /\ LET task == d_tasks[d_idx]
     IN \E answer \in AnswersOf(task) :
          /\ Accepts(task, answer)
          /\ d_out' = [d_out EXCEPT ![task.name] = <<answer>>]
  /\ d_idx' = d_idx + 1
  /\ d_phase' = IF d_idx = Len(d_tasks) THEN "done" ELSE "ready"
  /\ UNCHANGED <<d_req, d_tasks, d_seen, d_order>>

\* the task fails (iteration budget, tools): the rest of the list is not run
FailTask ==
  /\ UNCHANGED <<bridgeVars, testVars>>
  /\ d_phase = "running"
  /\ d_phase' = "failed"
  /\ UNCHANGED <<d_req, d_tasks, d_idx, d_out, d_seen, d_order>>

NextDesign ==
  \/ BuildCrew
  \/ StartTask
  \/ FinishTask
  \/ FailTask

SpecDesign == InitDesign /\ [][NextDesign]_vars

\* C7: the tasks are started in the order analyze, design; the design task is
\* given exactly the result of the analyze task, which exists by then; the
\* analyze task is given nothing, and finishes before the design task has any
\* result.
C7_TasksInOrderWithContext ==
  /\ d_order \in {<<>>, <<"analyze">>, <<"analyze", "design">>}
  /\ d_seen["analyze"] = <<>>
  /\ (\E i \in 1..Len(d_order) : d_order[i] = "design") =>
       /\ Len(d_out["analyze"]) = 1
       /\ d_seen["design"] = d_out["analyze"]
  /\ d_out["design"] # <<>> => d_out["analyze"] # <<>>

\* both tasks ran, and the design task saw the second report
C7_Witness ==
  /\ d_phase = "done"
  /\ d_order = <<"analyze", "design">>
  /\ d_seen["design"] = <<"report2">>
  /\ d_out["design"] # <<>>

StepNumbers(plan) == [i \in 1..Len(plan.design_steps) |-> plan.design_steps[i].step_number]

StrictlyIncreasing(ns) == \A i \in 1..(Len(ns) - 1) : ns[i] < ns[i + 1]

\* C9 as stated: in a plan the design pipeline took as the design task's
\* result, the step numbers are strictly increasing in list order
C9_StepNumbersIncreasing ==
  d_out["design"] # <<>> => StrictlyIncreasing(StepNumbers(d_out["design"][1]))

\* no run's task is pending or inside its with-blocks
AllRunsEnded == \A r \in Runs : prod[r] \notin {"scheduled", "running"}

\* C11 as stated: whenever every run has ended, normally or by exception,
\* sys.stdout is again the original target; and sys.stdout never points at a
\* write_file that has been closed
C11_StdoutRestored ==
  /\ AllRunsEnded => sys_stdout = Orig
  /\ sys_stdout # Orig => wopen[sys_stdout]

====
